---- MODULE Spec2Model ----
(***************************************************************************)
(* Top sites of the new-tab page (app/browser/api/topSites.js).            *)
(*                                                                         *)
(* The module state of topSites.js is the pair of watermarks               *)
(* minCountOfTopSites / minAccessOfTopSites and the timer held by the      *)
(* debounced wrapper of getTopSiteData.  The application state read by     *)
(* getTopSiteData (history sites, pinned top sites, ignored top sites) is  *)
(* the environment; it changes between calls.  The bookmark cache is kept  *)
(* fixed.  The grid passed to appActions.topSiteDataAvailable is the       *)
(* output of a step.                                                       *)
(*                                                                         *)
(* Spec runs every operation over three history keys.  SpecRanking runs    *)
(* the pipeline over every history of at most MaxRanked records, which     *)
(* includes records with no location, with a location that does not parse  *)
(* and with the location of an about page.                                 *)
(***************************************************************************)
EXTENDS Integers, Sequences, FiniteSets

(***************************************************************************)
(* Bounds of the model.                                                    *)
(***************************************************************************)
\* SpecRanking: the history holds at most this many records
MaxRanked == 4
\* length of the pinned sequence (18 in the application)
GridSize == 2
\* the literal 18 of line 122, scaled down with the grid
minGridFill == 2
\* the pool size of line 15 (100 in the source), scaled down with the history
aboutNewTabMaxEntries == 2

\* JavaScript undefined: a missing field, an unset watermark
Undef == 0 - 1

(***************************************************************************)
(* Keys and locations.  A history key determines its location (the key is  *)
(* built from it).  Keys 1 and 3 share the host a.com; key 4 has no        *)
(* location, the location of key 5 does not parse, key 6 is an about page. *)
(***************************************************************************)
LocationKinds == << "https://a.com/1", "https://b.com/", "https://a.com/2",
                    "", "http://[bad", "about:preferences" >>

HistKeys == 1..Len(LocationKinds)

\* the keys Spec visits
VisitedKeys == {1, 2, 3}

\* js/data/newTabData topSites: the keys of the static catalog, in order
staticData == << 101 >>

CatalogKeys == {staticData[i] : i \in 1..Len(staticData)}

LocationOf(key) ==
  IF key \in CatalogKeys THEN "https://a.com/1" ELSE LocationKinds[key]

\* js/lib/appUrlUtil isSourceAboutUrl
isSourceAboutUrl(location) == location = "about:preferences"

\* app/common/urlParse: the parse throws on a malformed location
parseThrows(location) == location = "http://[bad"

hostname(location) ==
  IF location \in {"https://a.com/1", "https://a.com/2"} THEN "a.com"
  ELSE IF location = "https://b.com/" THEN "b.com"
  ELSE "other"

\* the locations bookmarkLocationCache holds a key for
bookmarkedLocations == {"https://b.com/"}

\* a missing field is Undef
Counts == {Undef, 1}
Times == {Undef, 1}
TimesRanking == {Undef, 1, 2}

\* the records a history key can hold
HistoryRecords(key, times) ==
  [location : {LocationOf(key)}, count : Counts, lastAccessedTime : times]

\* the value absent from a slot (null / undefined)
Null == [key |-> Undef, src |-> "null", location |-> "", count |-> Undef,
         lastAccessedTime |-> Undef, bookmarked |-> FALSE]

\* no call of appActions.topSiteDataAvailable
NoCall == << Null >>

VARIABLES
  historySites,         \* historyState.getSites(state): key -> record
  pinnedTopSites,       \* aboutNewTabState.getPinnedTopSites(state)
  ignoredTopSites,      \* aboutNewTabState.getIgnoredTopSites(state)
  minCountOfTopSites,   \* line 18
  minAccessOfTopSites,  \* line 19
  timeout,              \* the debounce timer is pending
  burst,                \* calls absorbed by the pending timeout: none, one, many
  belowWatermark,       \* keys the last filter rejected on a watermark alone
  topSiteDataAvailable  \* grid emitted by the last step, NoCall if none

vars == << historySites, pinnedTopSites, ignoredTopSites,
           minCountOfTopSites, minAccessOfTopSites, timeout, burst,
           belowWatermark, topSiteDataAvailable >>

inputs == << historySites, pinnedTopSites, ignoredTopSites >>

(***************************************************************************)
(* Helpers on sequences.                                                   *)
(***************************************************************************)
Front(s) == SubSeq(s, 1, Len(s) - 1)

Last(s) == s[Len(s)]

Take(s, n) == SubSeq(s, 1, IF n < Len(s) THEN n ELSE Len(s))

\* site.get(field, 0) and (site.get(field) || 0)
OrZero(v) == IF v = Undef THEN 0 ELSE v

\* JavaScript x < y on numbers or undefined: false when either is undefined
JsLess(x, y) == x # Undef /\ y # Undef /\ x < y

(***************************************************************************)
(* Lines 22-33.                                                            *)
(***************************************************************************)
isPinned(siteKey) ==
  \E i \in 1..Len(pinnedTopSites) :
    pinnedTopSites[i] # Null /\ pinnedTopSites[i].key = siteKey

isIgnored(siteKey) == siteKey \in ignoredTopSites

(***************************************************************************)
(* Lines 35-51.  left.get('count', 0) defaults a missing count to 0; the   *)
(* lastAccessedTime comparisons read the field without a default.          *)
(***************************************************************************)
sortCountDescending(left, right) ==
  LET leftCount == OrZero(left.count)
      rightCount == OrZero(right.count)
  IN IF leftCount < rightCount THEN 1
     ELSE IF leftCount > rightCount THEN 0 - 1
     ELSE IF JsLess(left.lastAccessedTime, right.lastAccessedTime) THEN 1
     ELSE IF JsLess(right.lastAccessedTime, left.lastAccessedTime) THEN 0 - 1
     ELSE 0

(***************************************************************************)
(* Immutable's sort: the comparator, then the original index on a tie.     *)
(* Elements are inserted in input order; an element moves left past those  *)
(* the comparator puts after it.                                           *)
(***************************************************************************)
RECURSIVE Insert(_, _)
Insert(sorted, site) ==
  IF sorted = << >> THEN << site >>
  ELSE IF sortCountDescending(Last(sorted), site) > 0
       THEN Append(Insert(Front(sorted), site), Last(sorted))
       ELSE Append(sorted, site)

RECURSIVE Sort(_)
Sort(sites) ==
  IF sites = << >> THEN << >> ELSE Insert(Sort(Front(sites)), Last(sites))

(***************************************************************************)
(* Lines 89-105: filter, sort, slice, map, toList.  The map is iterated in *)
(* key order.                                                              *)
(***************************************************************************)
KeySeq == [i \in 1..Len(LocationKinds) |-> i]

\* eligible with the test of line 91 left out
eligibleThoughPinned(key) ==
  /\ key \in DOMAIN historySites
  /\ ~isSourceAboutUrl(historySites[key].location)
  /\ ~isIgnored(key)

\* lines 90-92
eligible(key) ==
  /\ key \in DOMAIN historySites
  /\ ~isSourceAboutUrl(historySites[key].location)
  /\ ~isPinned(key)
  /\ ~isIgnored(key)

\* passesFilter with the tests of lines 93-94 left out
passesFilterNoWatermark(key, minCount, minAccess) == eligible(key)

\* lines 90-94
passesFilter(key, minCount, minAccess) ==
  /\ eligible(key)
  /\ (minCount = Undef \/ OrZero(historySites[key].count) >= minCount)
  /\ (minAccess = Undef \/ OrZero(historySites[key].lastAccessedTime) >= minAccess)

isBookmarked(location) == location \in bookmarkedLocations

HistorySite(key) ==
  [key |-> key, src |-> "history",
   location |-> historySites[key].location,
   count |-> historySites[key].count,
   lastAccessedTime |-> historySites[key].lastAccessedTime,
   bookmarked |-> isBookmarked(historySites[key].location)]

filteredSites(minCount, minAccess) ==
  LET keys == SelectSeq(KeySeq, LAMBDA k : passesFilter(k, minCount, minAccess))
  IN [i \in 1..Len(keys) |-> HistorySite(keys[i])]

sortedSites(minCount, minAccess) == Sort(filteredSites(minCount, minAccess))

rankedSites(minCount, minAccess) ==
  Take(sortedSites(minCount, minAccess), aboutNewTabMaxEntries)

(***************************************************************************)
(* Lines 107-116: the watermark loop over the pool.                        *)
(***************************************************************************)
\* lowerTo with the comparison left out: only an unset watermark is written
lowerToFirst(min, value) == IF min = Undef THEN value ELSE min

lowerTo(min, value) == IF min = Undef \/ value < min THEN value ELSE min

RECURSIVE minCountAfter(_, _)
minCountAfter(sites, minCount) ==
  IF sites = << >> THEN minCount
  ELSE minCountAfter(Tail(sites), lowerTo(minCount, OrZero(Head(sites).count)))

RECURSIVE minAccessAfter(_, _)
minAccessAfter(sites, minAccess) ==
  IF sites = << >> THEN minAccess
  ELSE minAccessAfter(Tail(sites),
                      lowerTo(minAccess, OrZero(Head(sites).lastAccessedTime)))

(***************************************************************************)
(* Lines 53-70.                                                            *)
(***************************************************************************)
RECURSIVE dedupFrom(_, _)
dedupFrom(list, siteDomains) ==
  IF list = << >> THEN << >>
  ELSE LET site == Head(list)
       IN IF site.location = "" THEN dedupFrom(Tail(list), siteDomains)
          ELSE IF parseThrows(site.location) THEN dedupFrom(Tail(list), siteDomains)
          ELSE IF hostname(site.location) \notin siteDomains
               THEN << site >> \o dedupFrom(Tail(list),
                                            siteDomains \cup {hostname(site.location)})
               ELSE dedupFrom(Tail(list), siteDomains)

\* removeDuplicateDomains with the set of seen hostnames left out
keepParsedSites(list) ==
  SelectSeq(list, LAMBDA site : site.location # "" /\ ~parseThrows(site.location))

removeDuplicateDomains(list) == dedupFrom(list, {})

(***************************************************************************)
(* Lines 122-133: the static catalog, filtered and flagged.                *)
(***************************************************************************)
CatalogSite(key) ==
  [key |-> key, src |-> "catalog", location |-> LocationOf(key), count |-> 0,
   lastAccessedTime |-> 0, bookmarked |-> isBookmarked(LocationOf(key))]

preDefined ==
  LET keys == SelectSeq(staticData, LAMBDA k : ~isPinned(k) /\ ~isIgnored(k))
  IN [i \in 1..Len(keys) |-> CatalogSite(keys[i])]

\* withCatalog with the operands of the concat swapped
catalogFirst(sites) ==
  IF Len(sites) < minGridFill THEN preDefined \o sites ELSE sites

withCatalog(sites) ==
  IF Len(sites) < minGridFill THEN sites \o preDefined ELSE sites

(***************************************************************************)
(* Lines 135-153: one slot per pinned index, then the empty slots dropped. *)
(***************************************************************************)
withoutKey(sites, key) == SelectSeq(sites, LAMBDA site : site.key # key)

RECURSIVE gridFrom(_, _)
gridFrom(i, sites) ==
  IF i > Len(pinnedTopSites) THEN << >>
  ELSE LET pinned == pinnedTopSites[i]
       IN IF pinned # Null
          THEN << pinned >> \o gridFrom(i + 1, withoutKey(sites, pinned.key))
          ELSE IF sites = << >>
               THEN << Null >> \o gridFrom(i + 1, sites)
               ELSE << Head(sites) >> \o gridFrom(i + 1, Tail(sites))

slotSites(sites) == gridFrom(1, sites)

gridSites(sites) == SelectSeq(slotSites(sites), LAMBDA site : site # Null)

(***************************************************************************)
(* Lines 83-156: getTopSiteData from the watermarks it starts with.        *)
(***************************************************************************)
getTopSiteData(minCount, minAccess) ==
  LET sites == rankedSites(minCount, minAccess)
  IN /\ belowWatermark' = {key \in HistKeys :
                             eligible(key) /\ ~passesFilter(key, minCount, minAccess)}
     /\ minCountOfTopSites' = minCountAfter(sites, minCount)
     /\ minAccessOfTopSites' = minAccessAfter(sites, minAccess)
     /\ topSiteDataAvailable' = gridSites(withCatalog(removeDuplicateDomains(sites)))

(***************************************************************************)
(* Lines 164-167.                                                          *)
(***************************************************************************)
clearedMinCount == Undef

\* line 166 left out: minAccessOfTopSites is not reset
keptMinAccess == minAccessOfTopSites

clearedMinAccess == Undef

clearTopSiteCacheData ==
  /\ minCountOfTopSites' = clearedMinCount
  /\ minAccessOfTopSites' = clearedMinAccess
  /\ topSiteDataAvailable' = NoCall
  /\ UNCHANGED << inputs, timeout, burst, belowWatermark >>

(***************************************************************************)
(* Line 162 and js/lib/debounce: every call of the wrapper clears the      *)
(* pending timeout and sets a new one; the callback runs getTopSiteData.   *)
(* The delay (5 * 1000 ms) elapses at any later step.                      *)
(***************************************************************************)
debouncedGetTopSiteData ==
  /\ timeout' = TRUE
  /\ burst' = IF timeout THEN "many" ELSE "one"

\* the timeout expires and its callback runs
timeoutFires ==
  /\ timeout
  /\ timeout' = FALSE
  /\ burst' = "none"
  /\ UNCHANGED inputs
  /\ getTopSiteData(minCountOfTopSites, minAccessOfTopSites)

\* calculateTopSites with the test of line 76 left out: always immediate
calculateTopSitesNow(clearCache, withoutDebounce) ==
  /\ UNCHANGED << inputs, timeout, burst >>
  /\ getTopSiteData(IF clearCache THEN clearedMinCount ELSE minCountOfTopSites,
                    IF clearCache THEN clearedMinAccess ELSE minAccessOfTopSites)

(***************************************************************************)
(* Lines 72-81.                                                            *)
(***************************************************************************)
calculateTopSites(clearCache, withoutDebounce) ==
  LET minCount == IF clearCache THEN clearedMinCount ELSE minCountOfTopSites
      minAccess == IF clearCache THEN clearedMinAccess ELSE minAccessOfTopSites
  IN /\ UNCHANGED inputs
     /\ IF withoutDebounce
        THEN /\ UNCHANGED << timeout, burst >>
             /\ getTopSiteData(minCount, minAccess)
        ELSE /\ debouncedGetTopSiteData
             /\ minCountOfTopSites' = minCount
             /\ minAccessOfTopSites' = minAccess
             /\ topSiteDataAvailable' = NoCall
             /\ UNCHANGED belowWatermark

(***************************************************************************)
(* The application state changes between calls.  No grid is emitted, and   *)
(* what the last filter rejected says nothing about the new state.         *)
(***************************************************************************)
PinnableKeys == {1} \cup CatalogKeys

IgnorableKeys == {2} \cup CatalogKeys

PinnedSite(key) ==
  [key |-> key, src |-> "pinned", location |-> LocationOf(key), count |-> Undef,
   lastAccessedTime |-> Undef, bookmarked |-> FALSE]

quiet ==
  /\ topSiteDataAvailable' = NoCall
  /\ belowWatermark' = {}
  /\ UNCHANGED << minCountOfTopSites, minAccessOfTopSites, timeout, burst >>

setSite(key, record) ==
  /\ historySites' = [k \in DOMAIN historySites \cup {key} |->
                        IF k = key THEN record ELSE historySites[k]]
  /\ UNCHANGED << pinnedTopSites, ignoredTopSites >>
  /\ quiet

removeSite(key) ==
  /\ key \in DOMAIN historySites
  /\ historySites' = [k \in DOMAIN historySites \ {key} |-> historySites[k]]
  /\ UNCHANGED << pinnedTopSites, ignoredTopSites >>
  /\ quiet

\* a key is pinned at one index at most
setPinned(i, site) ==
  /\ pinnedTopSites[i] # site
  /\ site # Null => ~isPinned(site.key)
  /\ pinnedTopSites' = [pinnedTopSites EXCEPT ![i] = site]
  /\ UNCHANGED << historySites, ignoredTopSites >>
  /\ quiet

toggleIgnored(key) ==
  /\ ignoredTopSites' = IF key \in ignoredTopSites
                        THEN ignoredTopSites \ {key}
                        ELSE ignoredTopSites \cup {key}
  /\ UNCHANGED << historySites, pinnedTopSites >>
  /\ quiet

idle ==
  /\ minCountOfTopSites = Undef
  /\ minAccessOfTopSites = Undef
  /\ timeout = FALSE
  /\ burst = "none"
  /\ belowWatermark = {}
  /\ topSiteDataAvailable = NoCall

Init ==
  /\ historySites = << >>
  /\ pinnedTopSites = [i \in 1..GridSize |-> Null]
  /\ ignoredTopSites = {}
  /\ idle

Next ==
  \/ \E key \in VisitedKeys : \E record \in HistoryRecords(key, Times) :
       setSite(key, record)
  \/ \E key \in VisitedKeys : removeSite(key)
  \/ \E i \in 1..GridSize :
       \E site \in {Null} \cup {PinnedSite(k) : k \in PinnableKeys} : setPinned(i, site)
  \/ \E key \in IgnorableKeys : toggleIgnored(key)
  \/ \E clearCache \in BOOLEAN : \E withoutDebounce \in BOOLEAN :
       calculateTopSites(clearCache, withoutDebounce)
  \/ clearTopSiteCacheData
  \/ timeoutFires

Spec == Init /\ [][Next]_vars

(***************************************************************************)
(* SpecRanking: the pipeline on a history drawn from every history of at   *)
(* most MaxRanked records, with no pin and nothing ignored.                *)
(***************************************************************************)
InitRanking ==
  /\ \E keys \in {ks \in SUBSET HistKeys : Cardinality(ks) <= MaxRanked} :
       \E stats \in [keys -> [count : Counts, lastAccessedTime : TimesRanking]] :
         historySites = [k \in keys |->
                           [location |-> LocationOf(k), count |-> stats[k].count,
                            lastAccessedTime |-> stats[k].lastAccessedTime]]
  /\ pinnedTopSites = [i \in 1..GridSize |-> Null]
  /\ ignoredTopSites = {}
  /\ idle

NextRanking ==
  \/ \E clearCache \in BOOLEAN : calculateTopSites(clearCache, TRUE)
  \/ clearTopSiteCacheData

SpecRanking == InitRanking /\ [][NextRanking]_vars

(***************************************************************************)
(* Properties.                                                             *)
(***************************************************************************)
emitted == topSiteDataAvailable # NoCall

\* the steps that clear the cache
ClearStep ==
  clearTopSiteCacheData \/ \E d \in BOOLEAN : calculateTopSites(TRUE, d)

keysOf(sites) == {sites[i].key : i \in 1..Len(sites)}

\* C1: in every emitted grid, each non-null pin of index i of the pinned
\* sequence is the entry of index i of the grid.
PinPriority ==
  emitted =>
    \A i \in 1..Len(pinnedTopSites) :
      pinnedTopSites[i] # Null =>
        /\ i <= Len(topSiteDataAvailable)
        /\ topSiteDataAvailable[i] = pinnedTopSites[i]

CacheClearResetsFiltering ==
  [][ /\ \/ /\ minCountOfTopSites' = Undef
               /\ minAccessOfTopSites' = Undef
               /\ \A key \in belowWatermark' :
                    passesFilter(key, minCountOfTopSites, minAccessOfTopSites)'
            \/ ~(clearTopSiteCacheData \/ calculateTopSites(TRUE, FALSE))
      /\ belowWatermark' = {} \/ ~calculateTopSites(TRUE, TRUE)
    ]_vars

\* the cache was cleared after a recomputation rejected a record on a watermark
CacheClearWitness ==
  /\ belowWatermark # {}
  /\ minCountOfTopSites = Undef
  /\ minAccessOfTopSites = Undef

\* C4: a step that does not clear the cache never lowers or unsets a set
\* watermark.
MonotoneWatermark ==
  [][ \/ /\ minCountOfTopSites # Undef =>
              (minCountOfTopSites' # Undef /\ minCountOfTopSites' >= minCountOfTopSites)
         /\ minAccessOfTopSites # Undef =>
              (minAccessOfTopSites' # Undef /\ minAccessOfTopSites' >= minAccessOfTopSites)
      \/ ClearStep
    ]_vars

\* a recomputation ran with a record of the history below a set watermark
MonotoneWatermarkWitness ==
  /\ emitted
  /\ \E key \in belowWatermark :
       \/ OrZero(historySites[key].count) < minCountOfTopSites
       \/ OrZero(historySites[key].lastAccessedTime) < minAccessOfTopSites

Debounce ==
  [][ /\ \A c \in BOOLEAN :
           (~emitted' /\ timeout') \/ ~calculateTopSites(c, FALSE)
      /\ \A c \in BOOLEAN :
           (emitted' /\ timeout' = timeout) \/ ~calculateTopSites(c, TRUE)
      /\ (emitted' /\ ~timeout') \/ ~timeoutFires
      /\ (emitted' /\ timeout' # timeout) => (timeout /\ ~timeout' /\ burst # "none")
    ]_vars

\* two calls are waiting on one timeout and the pipeline has not run
DebounceWitness == timeout /\ burst = "many" /\ ~emitted

\* C7: the deduplicated list holds, in rank order, exactly the entries of the
\* pool whose location parses and whose hostname no earlier such entry has;
\* no two of them, and no two history entries of an emitted grid, share a
\* hostname.
DomainUniqueness ==
  LET pool == rankedSites(minCountOfTopSites, minAccessOfTopSites)
      kept == removeDuplicateDomains(pool)
      usable(i) == pool[i].location # "" /\ ~parseThrows(pool[i].location)
      first == {i \in 1..Len(pool) :
                  /\ usable(i)
                  /\ \A j \in 1..(i - 1) :
                       usable(j) =>
                         hostname(pool[j].location) # hostname(pool[i].location)}
      nth(n) == CHOOSE i \in first : Cardinality({j \in first : j < i}) = n - 1
      fromHistory == SelectSeq(topSiteDataAvailable, LAMBDA site : site.src = "history")
  IN /\ Len(kept) = Cardinality(first)
     /\ \A n \in 1..Len(kept) : kept[n] = pool[nth(n)]
     /\ \A m, n \in 1..Len(kept) :
          m # n => hostname(kept[m].location) # hostname(kept[n].location)
     /\ emitted =>
          \A m, n \in 1..Len(fromHistory) :
            /\ fromHistory[m].location # ""
            /\ ~parseThrows(fromHistory[m].location)
            /\ m # n => hostname(fromHistory[m].location) # hostname(fromHistory[n].location)

\* both records of host a.com are in the pool and the grid holds the first only
DomainUniquenessWitness ==
  LET pool == rankedSites(minCountOfTopSites, minAccessOfTopSites)
  IN /\ emitted
     /\ Len(pool) = 2
     /\ hostname(pool[1].location) = "a.com"
     /\ hostname(pool[2].location) = "a.com"
     /\ pool[1].key \in keysOf(topSiteDataAvailable)
     /\ pool[2].key \notin keysOf(topSiteDataAvailable)

\* the order of the claim: count descending, then lastAccessedTime descending,
\* then input order, a missing field counting as 0
ranksBefore(left, right) ==
  \/ OrZero(left.count) > OrZero(right.count)
  \/ /\ OrZero(left.count) = OrZero(right.count)
     /\ OrZero(left.lastAccessedTime) > OrZero(right.lastAccessedTime)
  \/ /\ OrZero(left.count) = OrZero(right.count)
     /\ OrZero(left.lastAccessedTime) = OrZero(right.lastAccessedTime)
     /\ left.key < right.key

\* C8: the sorted candidates, and the history entries of the grid emitted from
\* them, are in the order of ranksBefore.
RankingOrder ==
  LET sorted == sortedSites(minCountOfTopSites, minAccessOfTopSites)
      fromHistory == SelectSeq(topSiteDataAvailable, LAMBDA site : site.src = "history")
  IN emitted =>
       /\ \A i, j \in 1..Len(sorted) : i < j => ranksBefore(sorted[i], sorted[j])
       /\ \A i, j \in 1..Len(fromHistory) :
            i < j => ranksBefore(fromHistory[i], fromHistory[j])

\* the grid a recomputation must emit from the watermarks it starts with
paddedGrid(minCount, minAccess) ==
  LET kept == removeDuplicateDomains(rankedSites(minCount, minAccess))
      working == IF Len(kept) < minGridFill THEN kept \o preDefined ELSE kept
      free == Cardinality({i \in 1..Len(pinnedTopSites) : pinnedTopSites[i] = Null})
      unpinned == SelectSeq(topSiteDataAvailable', LAMBDA site : site.src # "pinned")
  IN /\ unpinned = Take(working, free)
     /\ \A i, j \in 1..Len(unpinned) :
          i < j => ~(unpinned[i].src = "catalog" /\ unpinned[j].src = "history")
     /\ (\E i \in 1..Len(unpinned) : unpinned[i].src = "catalog") =>
          Len(kept) < minGridFill
     /\ Len(topSiteDataAvailable') < Len(pinnedTopSites) => Len(working) < free

\* C9: the unpinned entries of an emitted grid are the first entries of the
\* working list (deduplicated history entries, then, when these are fewer than
\* the grid fill, the catalog entries neither pinned nor ignored), one per
\* unpinned slot; history entries precede catalog entries; a slot stays empty
\* only when the working list is exhausted.
CatalogIsPadding ==
  [][ emitted' =>
        /\ \A c \in BOOLEAN :
             calculateTopSites(c, TRUE) =>
               paddedGrid(IF c THEN Undef ELSE minCountOfTopSites,
                          IF c THEN Undef ELSE minAccessOfTopSites)
        /\ timeoutFires => paddedGrid(minCountOfTopSites, minAccessOfTopSites)
    ]_vars

\* a history entry followed by a catalog entry
CatalogIsPaddingWitness ==
  /\ emitted
  /\ \E i, j \in 1..Len(topSiteDataAvailable) :
       /\ i < j
       /\ topSiteDataAvailable[i].src = "history"
       /\ topSiteDataAvailable[j].src = "catalog"

\* C10: an immediate recomputation that follows a recomputation, the state
\* unchanged in between, emits the same grid and leaves the watermarks as
\* they are.
Idempotent ==
  [][ (emitted /\ calculateTopSites(FALSE, TRUE)) =>
        /\ topSiteDataAvailable' = topSiteDataAvailable
        /\ minCountOfTopSites' = minCountOfTopSites
        /\ minAccessOfTopSites' = minAccessOfTopSites
    ]_vars

====
